---- MODULE Spec2Model ----
(***************************************************************************)
(* Model of goloop/kind: the tag bitset (tag/tag.go) and the classifier    *)
(* Of / checkComplexTypes with the Kind wrapper's accessors (kind.go, the  *)
(* tag-based generation starting at line 673).                             *)
(***************************************************************************)
EXTENDS Integers, Sequences, FiniteSets

\* v, heap, stack, pc, cur, res: one call of Of and the queries on its
\* wrapper.  recv, args, calls: a Tag variable, the flag list its holder
\* passes, and the calls made on it so far.
VARIABLES v, heap, stack, pc, cur, res, recv, args, calls

kindvars == <<v, heap, stack, pc, cur, res>>
tagvars == <<recv, args, calls>>
vars == <<v, heap, stack, pc, cur, res, recv, args, calls>>

(***************************************************************************)
(* Bounds of the model.                                                    *)
(***************************************************************************)
\* Deepest nesting of container shapes in the types handed to Of (Spec).
MaxDepth == 3
\* Deepest nesting of container shapes in the types of QuerySpec.
QueryDepth == 2
\* Deepest nesting of sequences, pointers and channels over every leaf type.
SeqDepth == 2
\* Nested invocations of checkComplexTypes the goroutine stack has room for.
StackLimit == 6
\* Longest flag list passed to Set, Add and Delete.
MaxFlags == 2
\* Calls made on one Tag variable.
MaxCalls == 2

(***************************************************************************)
(* tag/tag.go: the flags, 1 << iota.                                       *)
(***************************************************************************)
Nil == 1
Pointer == 2
Array == 4
ArrayOfArrays == 8
ArrayOfSlices == 16
Slice == 32
SliceOfSlices == 64
SliceOfArrays == 128
Struct == 256
Map == 512
Func == 1024
Chan == 2048
Bool == 4096
\* tag.Int (the name Int is taken by the Integers module).
IntTag == 8192
Int8 == 16384
Int16 == 32768
Int32 == 65536
Int64 == 131072
Uint == 262144
Uint8 == 524288
Uint16 == 1048576
Uint32 == 2097152
Uint64 == 4194304
Uintptr == 8388608
Float32 == 16777216
Float64 == 33554432
Complex64 == 67108864
Complex128 == 134217728
String == 268435456
UnsafePointer == 536870912
overflowTagValue == 1073741824

\* tag.Labels, as pairs <<label, flag>>.
Labels ==
    {<<"nil", Nil>>, <<"pointer", Pointer>>, <<"array", Array>>,
     <<"array of arrays", ArrayOfArrays>>,
     <<"array of slices", ArrayOfSlices>>, <<"slice", Slice>>,
     <<"slice of slices", SliceOfSlices>>,
     <<"slice of arrays", SliceOfArrays>>, <<"struct", Struct>>,
     <<"map", Map>>, <<"func", Func>>, <<"chan", Chan>>, <<"bool", Bool>>,
     <<"int", IntTag>>, <<"int8", Int8>>, <<"int16", Int16>>,
     <<"int32", Int32>>, <<"int64", Int64>>, <<"uint", Uint>>,
     <<"uint8", Uint8>>, <<"uint16", Uint16>>, <<"uint32", Uint32>>,
     <<"uint64", Uint64>>, <<"uintptr", Uintptr>>, <<"float32", Float32>>,
     <<"float64", Float64>>, <<"complex64", Complex64>>,
     <<"complex128", Complex128>>, <<"string", String>>,
     <<"unsafe pointer", UnsafePointer>>}

\* Bitwise AND of two naturals (Go's & on Tag).
RECURSIVE BitAnd(_, _)
BitAnd(a, b) ==
    IF a = 0 \/ b = 0 THEN 0
    ELSE (a % 2) * (b % 2) + 2 * BitAnd(a \div 2, b \div 2)

\* math/bits.OnesCount.
RECURSIVE OnesCount(_)
OnesCount(a) == IF a = 0 THEN 0 ELSE (a % 2) + OnesCount(a \div 2)

\* copy&tag == tag for a tag of one bit (the loop of IsValid shifts one bit).
HasBit(copy, tag) == (copy \div tag) % 2 = 1

\* Tag.IsValid: every defined flag below overflowTagValue that is part of
\* the value is removed from a copy; valid iff nothing is left.
RECURSIVE IsValidLoop(_, _)
IsValidLoop(copy, tag) ==
    IF tag < overflowTagValue
    THEN IsValidLoop(IF HasBit(copy, tag) THEN copy - tag ELSE copy, tag * 2)
    ELSE copy

\* IsValid with the loop running up to and including overflowTagValue.
IsValid_Inclusive(t) ==
    IF t = 0 THEN TRUE
    ELSE IsValidLoop(IF HasBit(t, overflowTagValue)
                     THEN t - overflowTagValue ELSE t, 1) = 0

IsValid(t) == IF t = 0 THEN TRUE ELSE IsValidLoop(t, 1) = 0

\* Contains answering true when any bit of the flag is present.
Contains_AnyBit(t, flag) ==
    IF flag = 0 THEN [ok |-> FALSE, err |-> "flag cannot be zero"]
    ELSE IF ~IsValid(flag) THEN [ok |-> FALSE, err |-> "incorrect flag value"]
    ELSE IF ~IsValid(t) THEN [ok |-> FALSE, err |-> "the object is damaged"]
    ELSE [ok |-> BitAnd(t, flag) # 0, err |-> ""]

\* Tag.Contains: [ok, err].
Contains(t, flag) ==
    IF flag = 0 THEN [ok |-> FALSE, err |-> "flag cannot be zero"]
    ELSE IF ~IsValid(flag) THEN [ok |-> FALSE, err |-> "incorrect flag value"]
    ELSE IF ~IsValid(t) THEN [ok |-> FALSE, err |-> "the object is damaged"]
    ELSE [ok |-> BitAnd(t, flag) = flag, err |-> ""]

\* Tag.Has.
Has(t, flag) == Contains(t, flag).ok

\* IsSingle with a strict upper limit.
IsSingle_Strict(t) == OnesCount(t) = 1 /\ t < (overflowTagValue + 1) \div 2

\* Tag.IsSingle.
IsSingle(t) == OnesCount(t) = 1 /\ t <= (overflowTagValue + 1) \div 2

\* Tag.IsComplex.
TagIsComplex(t) == IF t = 0 THEN FALSE ELSE ~IsSingle(t)

\* Tag.Set: [t, err]; flags is a sequence.
RECURSIVE SetLoop(_, _, _)
SetLoop(t, r, flags) ==
    IF flags = <<>> THEN [t |-> r, err |-> FALSE]
    ELSE IF ~IsValid(Head(flags)) THEN [t |-> t, err |-> TRUE]
    ELSE SetLoop(t,
                 IF ~Contains(r, Head(flags)).ok THEN r + Head(flags) ELSE r,
                 Tail(flags))

Set(t, flags) == SetLoop(t, 0, flags)

\* Add keeping the flags applied before the first invalid one.
Add_Partial(t, flags) ==
    LET n == CHOOSE n \in 0..Len(flags) :
                 /\ \A i \in 1..n : IsValid(flags[i])
                 /\ n = Len(flags) \/ ~IsValid(flags[n + 1])
    IN  [t |-> SetLoop(t, t, SubSeq(flags, 1, n)).t, err |-> n < Len(flags)]

\* Tag.Add: [t, err].
Add(t, flags) == SetLoop(t, t, flags)

RECURSIVE DeleteLoop(_, _, _)
DeleteLoop(t, r, flags) ==
    IF flags = <<>> THEN [t |-> r, err |-> FALSE]
    ELSE IF ~IsValid(Head(flags)) THEN [t |-> t, err |-> TRUE]
    ELSE DeleteLoop(t,
                    IF Contains(r, Head(flags)).ok THEN r - Head(flags) ELSE r,
                    Tail(flags))

\* Delete clearing the whole receiver.
Delete_Clear(t, flags) ==
    IF \E i \in 1..Len(flags) : ~IsValid(flags[i])
    THEN [t |-> t, err |-> TRUE]
    ELSE [t |-> 0, err |-> FALSE]

\* Delete handling the first flag only.
Delete_FirstOnly(t, flags) ==
    DeleteLoop(t, t, IF flags = <<>> THEN flags ELSE <<Head(flags)>>)

\* Tag.Delete: [t, err].
Delete(t, flags) == DeleteLoop(t, t, flags)

\* All answering true when some flag is contained.
All_SomeFlag(t, flags) == \E i \in 1..Len(flags) : Contains(t, flags[i]).ok

\* Tag.All.
RECURSIVE All(_, _)
All(t, flags) ==
    IF flags = <<>> THEN TRUE
    ELSE IF ~Contains(t, Head(flags)).ok THEN FALSE
    ELSE All(t, Tail(flags))

\* Tag.Any.
RECURSIVE Any(_, _)
Any(t, flags) ==
    IF flags = <<>> THEN FALSE
    ELSE IF Contains(t, Head(flags)).ok THEN TRUE
    ELSE Any(t, Tail(flags))

(***************************************************************************)
(* reflect.Type as the classifier sees it: Kind(), Elem(), Key(), String().*)
(* A type is a record: a leaf [kind, name], a container [kind, elem] or a  *)
(* map [kind, key, elem].  A defined type that refers back to itself       *)
(* (type T []T) has a name and no elem: its element type is the type.      *)
(***************************************************************************)
Leaf(kind, name) == [kind |-> kind, name |-> name]
SliceT(e) == [kind |-> "Slice", elem |-> e]
ArrayT(e) == [kind |-> "Array", elem |-> e]
PtrT(e) == [kind |-> "Ptr", elem |-> e]
ChanT(e) == [kind |-> "Chan", elem |-> e]
MapT(k, e) == [kind |-> "Map", key |-> k, elem |-> e]
SelfT(kind, name) == [kind |-> kind, name |-> name]
SelfMapT(name, k) == [kind |-> "Map", name |-> name, key |-> k]

\* reflect.Type.Elem().
Elem(t) == IF "elem" \in DOMAIN t THEN t.elem ELSE t

\* The scalar kinds of the inner switch of checkComplexTypes, each with the
\* name reflect prints for the predeclared type.
ScalarKinds ==
    {"Bool", "String", "Int8", "Int16", "Int32", "Int64", "Uint8", "Uint16",
     "Uint32", "Uint64", "Int", "Uint", "Uintptr", "Float32", "Float64",
     "Complex64", "Complex128"}

KindName(kind) ==
    CASE kind = "Bool" -> "bool"
      [] kind = "String" -> "string"
      [] kind = "Int8" -> "int8"
      [] kind = "Int16" -> "int16"
      [] kind = "Int32" -> "int32"
      [] kind = "Int64" -> "int64"
      [] kind = "Uint8" -> "uint8"
      [] kind = "Uint16" -> "uint16"
      [] kind = "Uint32" -> "uint32"
      [] kind = "Uint64" -> "uint64"
      [] kind = "Int" -> "int"
      [] kind = "Uint" -> "uint"
      [] kind = "Uintptr" -> "uintptr"
      [] kind = "Float32" -> "float32"
      [] kind = "Float64" -> "float64"
      [] kind = "Complex64" -> "complex64"
      [] kind = "Complex128" -> "complex128"

ScalarLeaves == {Leaf(kd, KindName(kd)) : kd \in ScalarKinds}

\* Named types with a scalar underlying type, a struct, and the leaves the
\* walk has no case for (func, interface, unsafe.Pointer).
NamedLeaves == {Leaf("Int", "main.MyInt"), Leaf("String", "main.Label")}
StructLeaves == {Leaf("Struct", "struct { a int }")}
OtherLeaves ==
    {Leaf("Func", "func()"), Leaf("UnsafePointer", "unsafe.Pointer")}
InterfaceLeaf == Leaf("Interface", "interface {}")

\* type T []T, type P *P, type C chan C, type M map[string]M.
SelfTypes ==
    {SelfT("Slice", "main.T"), SelfT("Ptr", "main.P"),
     SelfT("Chan", "main.C"), SelfMapT("main.M", Leaf("String", "string"))}

\* Leaves a value handed to Of can have as its own type.
TopLeaves == ScalarLeaves \cup NamedLeaves \cup StructLeaves \cup OtherLeaves

\* Leaves used below MaxDepth levels of containers, and the key types of maps.
ElemLeaves ==
    {Leaf("Int", "int"), Leaf("String", "string"), Leaf("Uint", "uint"),
     Leaf("Struct", "struct { a int }"), Leaf("Int", "main.MyInt"),
     InterfaceLeaf}
KeyTypes == {Leaf("String", "string"), Leaf("Int", "int")}

Unary(S) ==
    {SliceT(e) : e \in S} \cup {ArrayT(e) : e \in S}
        \cup {PtrT(e) : e \in S} \cup {ChanT(e) : e \in S}

\* All types of at most d container levels over the given leaves.
RECURSIVE TypesOver(_, _)
TypesOver(leaves, d) ==
    IF d = 0 THEN leaves
    ELSE LET S == TypesOver(leaves, d - 1)
         IN  S \cup Unary(S) \cup {MapT(k, e) : k \in KeyTypes, e \in S}

\* Sequences, pointers and channels of at most d levels over the leaves.
RECURSIVE SeqOver(_, _)
SeqOver(leaves, d) ==
    IF d = 0 THEN leaves
    ELSE LET S == SeqOver(leaves, d - 1) IN S \cup Unary(S)

ArrayLen == "2"

\* reflect.Type.String().
RECURSIVE TypeString(_)
TypeString(t) ==
    IF "name" \in DOMAIN t THEN t.name
    ELSE CASE t.kind = "Slice" -> "[]" \o TypeString(t.elem)
           [] t.kind = "Array" ->
                 "[" \o ArrayLen \o "]" \o TypeString(t.elem)
           [] t.kind = "Ptr" -> "*" \o TypeString(t.elem)
           [] t.kind = "Chan" -> "chan " \o TypeString(t.elem)
           [] t.kind = "Map" ->
                 "map[" \o TypeString(t.key) \o "]" \o TypeString(t.elem)

(***************************************************************************)
(* kind.go: the Kind struct.  mapKeyKind and mapValueKind are pointers:    *)
(* 0 is nil, i > 0 is the wrapper heap[i].                                 *)
(***************************************************************************)
\* The nil interface value, and a non-nil value of dynamic type t.
NilValue == [isNil |-> TRUE, type |-> Leaf("Invalid", ""), data |-> 0]
Value(t, d) == [isNil |-> FALSE, type |-> t, data |-> d]

\* A Kind with the given name and tag and zero values elsewhere.
KindLit(name, tag) ==
    [name |-> name, value |-> NilValue, mapKeyKind |-> 0, mapValueKind |-> 0,
     tag |-> tag]

\* new(Kind).
ZeroKind == KindLit("", 0)

\* One invocation checkComplexTypes(k, t, level), depth frames deep.
Frame(k, t, level, depth) ==
    [k |-> k, t |-> t, level |-> level, depth |-> depth]

(***************************************************************************)
(* checkComplexTypes.                                                      *)
(***************************************************************************)
\* multiSequence testing the plain flags instead of the nesting flags.
multiSequence_PlainOnly(tag) == Any(tag, <<Slice, Array>>)

\* multiSequence never reporting a nesting flag.
multiSequence_Never(tag) == FALSE

\* The closure multiSequence of checkComplexTypes.
multiSequence(tag) ==
    Any(tag, <<SliceOfSlices, SliceOfArrays, ArrayOfSlices, ArrayOfArrays>>)

\* ScalarTag with the case of one kind (uintptr) left out.
ScalarTag_NoUintptr(kind) ==
    IF kind \in ScalarKinds \ {"Uintptr"}
    THEN (CHOOSE l \in Labels : l[1] = KindName(kind))[2]
    ELSE 0

\* The flag the inner switch adds for a scalar kind; 0 when no case matches.
ScalarTag(kind) ==
    CASE kind = "Bool" -> Bool
      [] kind = "String" -> String
      [] kind = "Int8" -> Int8
      [] kind = "Int16" -> Int16
      [] kind = "Int32" -> Int32
      [] kind = "Int64" -> Int64
      [] kind = "Uint8" -> Uint8
      [] kind = "Uint16" -> Uint16
      [] kind = "Uint32" -> Uint32
      [] kind = "Uint64" -> Uint64
      [] kind = "Int" -> IntTag
      [] kind = "Uint" -> Uint
      [] kind = "Uintptr" -> Uintptr
      [] kind = "Float32" -> Float32
      [] kind = "Float64" -> Float64
      [] kind = "Complex64" -> Complex64
      [] kind = "Complex128" -> Complex128
      [] OTHER -> 0

\* The tag of k after the k.tag.Add calls of one invocation on type t.
StepTag(tag, t) ==
    CASE t.kind = "Slice" ->
            IF Elem(t).kind = "Slice" THEN Add(tag, <<SliceOfSlices>>).t
            ELSE IF Elem(t).kind = "Array" THEN Add(tag, <<SliceOfArrays>>).t
            ELSE IF ~multiSequence(tag) THEN Add(tag, <<Slice>>).t
            ELSE tag
      [] t.kind = "Array" ->
            IF Elem(t).kind = "Slice" THEN Add(tag, <<ArrayOfSlices>>).t
            ELSE IF Elem(t).kind = "Array" THEN Add(tag, <<ArrayOfArrays>>).t
            ELSE IF ~multiSequence(tag) THEN Add(tag, <<Array>>).t
            ELSE tag
      [] t.kind = "Ptr" -> Add(tag, <<Pointer>>).t
      [] t.kind = "Map" -> Add(tag, <<Map>>).t
      [] t.kind = "Chan" -> Add(tag, <<Chan>>).t
      [] t.kind = "Struct" -> Add(tag, <<Struct>>).t
      [] OTHER ->
            IF ScalarTag(t.kind) # 0 THEN Add(tag, <<ScalarTag(t.kind)>>).t
            ELSE tag

\* StepCalls with the key and value types classified on the parent wrapper.
StepCalls_SameWrapper(f, keyId, valId) ==
    CASE f.t.kind \in {"Slice", "Array", "Ptr", "Chan"} ->
            <<Frame(f.k, Elem(f.t), f.level + 1, f.depth + 1)>>
      [] f.t.kind = "Map" ->
            <<Frame(f.k, f.t.key, 0, f.depth + 1),
              Frame(f.k, Elem(f.t), 0, f.depth + 1)>>
      [] OTHER -> <<>>

\* StepCalls with the walk ending at a channel.
StepCalls_ChanStops(f, keyId, valId) ==
    CASE f.t.kind \in {"Slice", "Array", "Ptr"} ->
            <<Frame(f.k, Elem(f.t), f.level + 1, f.depth + 1)>>
      [] f.t.kind = "Map" ->
            <<Frame(keyId, f.t.key, 0, f.depth + 1),
              Frame(valId, Elem(f.t), 0, f.depth + 1)>>
      [] OTHER -> <<>>

\* The recursive calls one invocation makes, in call order.
StepCalls(f, keyId, valId) ==
    CASE f.t.kind \in {"Slice", "Array", "Ptr", "Chan"} ->
            <<Frame(f.k, Elem(f.t), f.level + 1, f.depth + 1)>>
      [] f.t.kind = "Map" ->
            <<Frame(keyId, f.t.key, 0, f.depth + 1),
              Frame(valId, Elem(f.t), 0, f.depth + 1)>>
      [] OTHER -> <<>>

\* StepHeap with the default branch of the inner switch naming the wrapper
\* "undefined" for a kind no case matches.
StepHeap_Undefined(h, f) ==
    LET tagged == [h EXCEPT ![f.k].tag = StepTag(h[f.k].tag, f.t)]
    IN  IF f.t.kind = "Map"
        THEN [tagged EXCEPT ![f.k].mapKeyKind = Len(h) + 1,
                            ![f.k].mapValueKind = Len(h) + 2]
                 \o <<KindLit(TypeString(f.t.key), 0),
                      KindLit(TypeString(Elem(f.t)), 0)>>
        ELSE IF f.t.kind \in {"Slice", "Array", "Ptr", "Chan", "Struct"}
                              \cup ScalarKinds
        THEN tagged
        ELSE [tagged EXCEPT ![f.k].name = "undefined"]

\* The wrappers after one invocation: the tag of k is updated and, for a
\* map, the two children are allocated and linked.
StepHeap(h, f) ==
    LET tagged == [h EXCEPT ![f.k].tag = StepTag(h[f.k].tag, f.t)]
    IN  IF f.t.kind = "Map"
        THEN [tagged EXCEPT ![f.k].mapKeyKind = Len(h) + 1,
                            ![f.k].mapValueKind = Len(h) + 2]
                 \o <<KindLit(TypeString(f.t.key), 0),
                      KindLit(TypeString(Elem(f.t)), 0)>>
        ELSE tagged

(***************************************************************************)
(* Of: the call, then one step per invocation of checkComplexTypes, the    *)
(* pending invocations kept on the stack (innermost first).  Every call of *)
(* Of allocates its own wrapper and shares nothing with other calls, so a  *)
(* behaviour follows one call and the queries on its result.  A walk that   *)
(* nests deeper than the goroutine stack allows ends the program with the  *)
(* runtime's fatal stack overflow ("overflow").                            *)
(***************************************************************************)
KindInit ==
    /\ v = NilValue
    /\ heap = <<>>
    /\ stack = <<>>
    /\ pc = "idle"
    /\ cur = ZeroKind
    /\ res = [op |-> "none", k |-> ZeroKind, arg |-> "", out |-> FALSE]

Init ==
    /\ KindInit
    /\ recv = 0
    /\ args = <<>>
    /\ calls = <<>>

\* OfNil without the k.tag.Set(tag.Nil) call.
OfNil_NoSet(val) == [ZeroKind EXCEPT !.value = val, !.name = "nil"]

\* The wrapper Of returns for the nil value.
OfNil(val) ==
    [ZeroKind EXCEPT !.value = val, !.tag = Set(0, <<Nil>>).t, !.name = "nil"]

Of(val) ==
    /\ pc = "idle"
    /\ v' = val
    /\ res' = [op |-> "none", k |-> ZeroKind, arg |-> "", out |-> FALSE]
    /\ IF val.isNil
       THEN /\ heap' = <<OfNil(val)>>
            /\ stack' = <<>>
            /\ pc' = "done"
            /\ cur' = heap'[1]
       ELSE /\ heap' = <<[ZeroKind EXCEPT !.value = val,
                                          !.name = TypeString(val.type)]>>
            /\ stack' = <<Frame(1, val.type, 0, 1)>>
            /\ pc' = "walk"
            /\ cur' = ZeroKind
    /\ UNCHANGED tagvars

checkComplexTypes ==
    /\ pc = "walk"
    /\ stack # <<>>
    /\ LET f == Head(stack)
       IN  IF f.depth > StackLimit
           THEN /\ pc' = "overflow"
                /\ UNCHANGED <<heap, stack, cur>>
           ELSE /\ heap' = StepHeap(heap, f)
                /\ stack' = StepCalls(f, Len(heap) + 1, Len(heap) + 2)
                                \o Tail(stack)
                /\ pc' = IF stack' = <<>> THEN "done" ELSE "walk"
                /\ cur' = IF stack' = <<>> THEN heap'[1] ELSE cur
    /\ UNCHANGED <<v, res>>
    /\ UNCHANGED tagvars

(***************************************************************************)
(* kind.go: the accessors of Kind.                                         *)
(***************************************************************************)
\* A *Kind handed to the caller: absent when the pointer is nil.
Deref(h, p) ==
    IF p = 0 THEN [absent |-> TRUE, kind |-> ZeroKind]
    ELSE [absent |-> FALSE, kind |-> h[p]]

NilKind == KindLit("nil", Nil)

\* MapKeyKind returning the stored pointer without the fallback.
MapKeyKind_NoFallback(h, k) == Deref(h, k.mapKeyKind)

\* Kind.MapKeyKind and Kind.MapValueKind.
MapKeyKind(h, k) ==
    IF Has(k.tag, Map) /\ k.mapKeyKind # 0 THEN Deref(h, k.mapKeyKind)
    ELSE [absent |-> FALSE, kind |-> NilKind]

MapValueKind(h, k) ==
    IF Has(k.tag, Map) /\ k.mapValueKind # 0 THEN Deref(h, k.mapValueKind)
    ELSE [absent |-> FALSE, kind |-> NilKind]

\* Kind.Name.
Name(k) == k.name

\* Kind.IsComplex.
IsComplex(k) == TagIsComplex(k.tag)

\* Kind.IsFunction.
IsFunction(k) == Has(k.tag, Func)

\* Kind.IsNumber and the other derived predicates.
IsAnyInt(k) ==
    Any(k.tag, <<Int8, Int16, Int32, Int64, IntTag,
                 Uint8, Uint16, Uint32, Uint64, Uint>>)
IsAnyFloat(k) == Any(k.tag, <<Float32, Float64>>)
IsAnyComplex(k) == Any(k.tag, <<Complex64, Complex128>>)
IsNumber(k) == IsAnyInt(k) \/ IsAnyFloat(k) \/ IsAnyComplex(k)
IsUnsigned(k) == Any(k.tag, <<Uint8, Uint16, Uint32, Uint64, Uint>>)
IsSigned(k) ==
    Any(k.tag, <<Int8, Int16, Int32, Int64, IntTag,
                 Float32, Float64, Complex64, Complex128>>)

UpperLetters == "ABCDEFGHIJKLMNOPQRSTUVWXYZ"
LowerLetters == "abcdefghijklmnopqrstuvwxyz"

\* The character c with the letters of from replaced by those of to.
CharTable(from, to) ==
    [c \in {SubSeq(from, i, i) : i \in 1..Len(from)} |->
        LET i == CHOOSE i \in 1..Len(from) : SubSeq(from, i, i) = c
        IN  SubSeq(to, i, i)]

LowerOf == CharTable(UpperLetters, LowerLetters)
UpperOf == CharTable(LowerLetters, UpperLetters)

MapChar(c, table) == IF c \in DOMAIN table THEN table[c] ELSE c

\* strings.ToLower.
RECURSIVE ToLower(_)
ToLower(s) ==
    IF Len(s) = 0 THEN ""
    ELSE MapChar(SubSeq(s, 1, 1), LowerOf)
             \o ToLower(SubSeq(s, 2, Len(s)))

\* strings.Replace(s, " ", "", -1).
RECURSIVE StripSpaces(_)
StripSpaces(s) ==
    IF Len(s) = 0 THEN ""
    ELSE (IF SubSeq(s, 1, 1) = " " THEN "" ELSE SubSeq(s, 1, 1))
             \o StripSpaces(SubSeq(s, 2, Len(s)))

\* Kind.Is.
Is(k, name) ==
    LET n == StripSpaces(ToLower(name))
    IN  IF \E l \in Labels : l[1] = n
        THEN Has(k.tag, (CHOOSE l \in Labels : l[1] = n)[2])
        ELSE k.name = n

\* The scalar kinds that have an As method.
AsKinds == ScalarKinds \ {"Uintptr"}

\* The type assertion k.value.(X): it holds when the dynamic type of the
\* value is exactly the predeclared type X.
TypeAssert(val, kind) ==
    ~val.isNil /\ val.type = Leaf(kind, KindName(kind))

ZeroData == 0

\* As handing out the value of any scalar when the category does not match.
As_Coerce(k, kind) ==
    IF Has(k.tag, ScalarTag(kind))
    THEN IF TypeAssert(k.value, kind)
         THEN [val |-> k.value.data, ok |-> TRUE, panic |-> FALSE]
         ELSE [val |-> ZeroData, ok |-> FALSE, panic |-> TRUE]
    ELSE [val |-> k.value.data,
          ok |-> ~k.value.isNil /\ k.value.type.kind \in ScalarKinds,
          panic |-> FALSE]

\* Kind.AsBool .. Kind.AsComplex128: [val, ok, panic].
As(k, kind) ==
    IF Has(k.tag, ScalarTag(kind))
    THEN IF TypeAssert(k.value, kind)
         THEN [val |-> k.value.data, ok |-> TRUE, panic |-> FALSE]
         ELSE [val |-> ZeroData, ok |-> FALSE, panic |-> TRUE]
    ELSE [val |-> ZeroData, ok |-> FALSE, panic |-> FALSE]

(***************************************************************************)
(* The calls a holder of the wrapper cur makes once Of has returned.       *)
(***************************************************************************)
Result(op, k, arg, out) == [op |-> op, k |-> k, arg |-> arg, out |-> out]

CallMapKeyKind ==
    /\ pc = "done"
    /\ LET r == MapKeyKind(heap, cur)
       IN  /\ res' = Result("MapKeyKind", cur, "", r)
           /\ cur' = IF r.absent THEN cur ELSE r.kind
    /\ UNCHANGED <<v, heap, stack, pc>>
    /\ UNCHANGED tagvars

CallMapValueKind ==
    /\ pc = "done"
    /\ LET r == MapValueKind(heap, cur)
       IN  /\ res' = Result("MapValueKind", cur, "", r)
           /\ cur' = IF r.absent THEN cur ELSE r.kind
    /\ UNCHANGED <<v, heap, stack, pc>>
    /\ UNCHANGED tagvars

\* Is and As read the wrapper and change nothing, so a behaviour ends with
\* one such call ("asked"); a failed type assertion panics.
CallIs(name) ==
    /\ pc = "done"
    /\ res' = Result("Is", cur, name, Is(cur, name))
    /\ pc' = "asked"
    /\ UNCHANGED <<v, heap, stack, cur>>
    /\ UNCHANGED tagvars

CallAs(kind) ==
    /\ pc = "done"
    /\ res' = Result("As", cur, kind, As(cur, kind))
    /\ pc' = IF res'.out.panic THEN "panic" ELSE "asked"
    /\ UNCHANGED <<v, heap, stack, cur>>
    /\ UNCHANGED tagvars

(***************************************************************************)
(* Inputs and specifications.                                              *)
(***************************************************************************)
\* The data of a value: a scalar is zero or not; the data of a container,
\* struct or function is never read by any accessor.
Payloads(t) == IF t.kind \in ScalarKinds THEN {0, 1} ELSE {1}

Values(types) ==
    {NilValue} \cup UNION {{Value(t, d) : d \in Payloads(t)} : t \in types}

\* Spec: classification of nested types.
\* Sequences with a pointer or a channel between their levels: []*[][]int,
\* [][]*[]int and the like.
Seqs(S) == {SliceT(e) : e \in S} \cup {ArrayT(e) : e \in S}
Gaps(S) == {PtrT(e) : e \in S} \cup {ChanT(e) : e \in S}
GapTypes ==
    Seqs(Gaps(Seqs(Seqs({Leaf("Int", "int")}))))
        \cup Seqs(Seqs(Gaps(Seqs({Leaf("Int", "int")}))))

SpecTypes ==
    TypesOver(ElemLeaves, MaxDepth) \cup SeqOver(TopLeaves, SeqDepth)
        \cup SelfTypes \cup GapTypes
SpecValues == Values(SpecTypes)

Next ==
    \/ pc = "idle" /\ \E val \in SpecValues : Of(val)
    \/ checkComplexTypes
    \/ CallMapKeyKind
    \/ CallMapValueKind

Spec == Init /\ [][Next]_vars

\* QuerySpec: Is and As on the wrappers of shallower types.
ToUpper(s) ==
    LET F[i \in 0..Len(s)] ==
            IF i = 0 THEN ""
            ELSE F[i - 1] \o MapChar(SubSeq(s, i, i), UpperOf)
    IN  F[Len(s)]

LabelSpellings ==
    UNION {{l[1], ToUpper(l[1]), StripSpaces(l[1])} : l \in Labels}

QueryLeaves ==
    {Leaf("Int", "int"), Leaf("String", "string"), Leaf("Int", "main.MyInt")}
QueryTypes == TypesOver(QueryLeaves, QueryDepth) \cup TopLeaves
QueryValues == Values(QueryTypes)

QueryNext ==
    \/ pc = "idle" /\ \E val \in QueryValues : Of(val)
    \/ checkComplexTypes
    \/ CallMapKeyKind
    \/ CallMapValueKind
    \/ pc = "done" /\ \E name \in LabelSpellings \cup {cur.name} : CallIs(name)
    \/ pc = "done" /\ \E kind \in AsKinds : CallAs(kind)

QuerySpec == Init /\ [][QueryNext]_vars

(***************************************************************************)
(* tag/tag.go: the calls a holder of a Tag variable makes with its flag    *)
(* list.  Set, Add and Delete store their result in the receiver; Contains *)
(* reads it.                                                               *)
(***************************************************************************)
\* Contains, All, Any, IsValid, IsSingle and IsComplex read the receiver and
\* change nothing, so a behaviour ends with one such call.
Queries == {"Contains", "All", "Any", "IsValid", "IsSingle", "IsComplex"}
Asking ==
    IF calls = <<>> THEN TRUE ELSE calls[Len(calls)].op \notin Queries
Open == Len(calls) < MaxCalls /\ Asking

CallSet ==
    /\ Open
    /\ LET out == Set(recv, args)
       IN  /\ recv' = out.t
           /\ calls' = Append(calls, Result("Set", recv, args, out))
    /\ UNCHANGED args
    /\ UNCHANGED kindvars

CallAdd ==
    /\ Open
    /\ LET out == Add(recv, args)
       IN  /\ recv' = out.t
           /\ calls' = Append(calls, Result("Add", recv, args, out))
    /\ UNCHANGED args
    /\ UNCHANGED kindvars

CallDelete ==
    /\ Open
    /\ LET out == Delete(recv, args)
       IN  /\ recv' = out.t
           /\ calls' = Append(calls, Result("Delete", recv, args, out))
    /\ UNCHANGED args
    /\ UNCHANGED kindvars

CallContains(flag) ==
    /\ Asking
    /\ calls' = Append(calls,
                       Result("Contains", recv, flag, Contains(recv, flag)))
    /\ UNCHANGED <<recv, args>>
    /\ UNCHANGED kindvars

CallAll ==
    /\ Asking
    /\ calls' = Append(calls, Result("All", recv, args, All(recv, args)))
    /\ UNCHANGED <<recv, args>>
    /\ UNCHANGED kindvars

CallAny ==
    /\ Asking
    /\ calls' = Append(calls, Result("Any", recv, args, Any(recv, args)))
    /\ UNCHANGED <<recv, args>>
    /\ UNCHANGED kindvars

CallIsValid ==
    /\ Asking
    /\ calls' = Append(calls, Result("IsValid", recv, <<>>, IsValid(recv)))
    /\ UNCHANGED <<recv, args>>
    /\ UNCHANGED kindvars

CallIsSingle ==
    /\ Asking
    /\ calls' = Append(calls, Result("IsSingle", recv, <<>>, IsSingle(recv)))
    /\ UNCHANGED <<recv, args>>
    /\ UNCHANGED kindvars

CallIsComplex ==
    /\ Asking
    /\ calls' = Append(calls,
                       Result("IsComplex", recv, <<>>, TagIsComplex(recv)))
    /\ UNCHANGED <<recv, args>>
    /\ UNCHANGED kindvars

\* Values of a Tag variable and of the flags passed: zero, single flags,
\* unions of flags, the union of the flags from Int to UnsafePointer, and
\* values with the bit of overflowTagValue.
StartTags ==
    {0, Nil, Slice, Slice + IntTag, Pointer + Array,
     overflowTagValue - IntTag, overflowTagValue, overflowTagValue + Nil}
FlagInputs == {0, Nil, Slice, IntTag, Slice + IntTag, overflowTagValue}
FlagLists == UNION {[1..n -> FlagInputs] : n \in 0..MaxFlags}

TagInit ==
    /\ KindInit
    /\ recv \in StartTags
    /\ args \in FlagLists
    /\ calls = <<>>

TagNext ==
    \/ CallSet
    \/ CallAdd
    \/ CallDelete
    \/ \E i \in 1..Len(args) : CallContains(args[i])
    \/ CallAll
    \/ CallAny

TagSpec == TagInit /\ [][TagNext]_vars

\* PredSpec: IsValid, IsSingle and IsComplex on zero, every flag, every sum
\* of two flags and the sum of all flags, each also with the bit of
\* overflowTagValue.
Categories == {l[2] : l \in Labels}
CategorySums ==
    {0, overflowTagValue - 1} \cup Categories
        \cup UNION {{a + b : b \in Categories \ {a}} : a \in Categories}
PredTags == CategorySums \cup {overflowTagValue + t : t \in CategorySums}

PredInit ==
    /\ KindInit
    /\ recv \in PredTags
    /\ args = <<>>
    /\ calls = <<>>

PredNext ==
    \/ CallIsValid
    \/ CallIsSingle
    \/ CallIsComplex

PredSpec == PredInit /\ [][PredNext]_vars

(***************************************************************************)
(* Vocabulary of the properties.                                           *)
(***************************************************************************)
AllFlags == {l[2] : l \in Labels}
NestingFlags == {SliceOfSlices, SliceOfArrays, ArrayOfSlices, ArrayOfArrays}
LeafKinds == ScalarKinds \cup {"Struct"}

\* The flag the label table gives for a label.
FlagOfLabel(label) == (CHOOSE l \in Labels : l[1] = label)[2]

\* The category of a leaf kind, read off the label table ("Int8" is "int8").
FlagOfKind(kind) == FlagOfLabel(ToLower(kind))

\* The flags of a tag, as a set.
FlagsIn(tag) == {f \in AllFlags : (tag \div f) % 2 = 1}

RECURSIVE SumOf(_)
SumOf(S) == IF S = {} THEN 0 ELSE LET x == CHOOSE x \in S : TRUE
                                  IN  x + SumOf(S \ {x})

\* The wrapper Of returned, once it has returned.
Returned == pc \in {"done", "asked", "panic"}
Root == heap[1]

\* The classification policy of a type on a wrapper that already carries the
\* flags acc, as a set of flags: a sequence level gives the nesting flag of
\* its element, else the plain flag unless a nesting flag is present; a map
\* ends the walk on this wrapper.
RECURSIVE PolicyFlags(_, _)
PolicyFlags(t, acc) ==
    CASE t.kind \in {"Slice", "Array"} ->
            LET own ==
                    IF t.elem.kind \in {"Slice", "Array"}
                    THEN {FlagOfLabel(ToLower(t.kind) \o " of "
                                          \o ToLower(t.elem.kind) \o "s")}
                    ELSE IF acc \cap NestingFlags = {}
                    THEN {FlagOfLabel(ToLower(t.kind))}
                    ELSE {}
            IN  PolicyFlags(t.elem, acc \cup own)
      [] t.kind = "Ptr" -> PolicyFlags(t.elem, acc \cup {Pointer})
      [] t.kind = "Chan" -> PolicyFlags(t.elem, acc \cup {Chan})
      [] t.kind = "Map" -> acc \cup {Map}
      [] t.kind \in LeafKinds -> acc \cup {FlagOfKind(t.kind)}
      [] OTHER -> acc

\* The map type a walk on one wrapper ends in, if any.
RECURSIVE MapOf(_)
MapOf(t) ==
    CASE t.kind = "Map" -> t
      [] t.kind \in {"Slice", "Array", "Ptr", "Chan"} -> MapOf(t.elem)
      [] OTHER -> Leaf("Invalid", "")

(***************************************************************************)
(* Properties.                                                             *)
(***************************************************************************)
\* C3: Of(nil) returns a wrapper named "nil" whose tag is exactly Nil: IsNil
\* holds, every other category predicate and IsComplex, IsNumber, IsAnyInt,
\* IsSigned and IsUnsigned are false, and no walk runs (no pending
\* invocation, no child wrappers).
C3_OfNil ==
    (pc # "idle" /\ v.isNil) =>
        /\ Returned
        /\ stack = <<>>
        /\ Len(heap) = 1
        /\ Name(Root) = "nil"
        /\ Root.tag = Nil
        /\ Has(Root.tag, Nil)
        /\ \A f \in AllFlags \ {Nil} : ~Has(Root.tag, f)
        /\ ~IsComplex(Root) /\ ~IsNumber(Root) /\ ~IsAnyInt(Root)
        /\ ~IsSigned(Root) /\ ~IsUnsigned(Root)
        /\ Root.mapKeyKind = 0 /\ Root.mapValueKind = 0

C3_Witness == pc = "done" /\ v.isNil /\ Root.name = "nil" /\ Has(Root.tag, Nil)

TwoLevelSeq(t) ==
    /\ t.kind \in {"Slice", "Array"}
    /\ t.elem.kind \in {"Slice", "Array"}
    /\ t.elem.elem.kind \in ScalarKinds

NestingFlagOf(outer, inner) ==
    CASE outer = "Slice" /\ inner = "Slice" -> SliceOfSlices
      [] outer = "Slice" /\ inner = "Array" -> SliceOfArrays
      [] outer = "Array" /\ inner = "Slice" -> ArrayOfSlices
      [] outer = "Array" /\ inner = "Array" -> ArrayOfArrays

C5_TwoLevelSequence ==
    (Returned /\ ~v.isNil /\ TwoLevelSeq(v.type)) =>
        /\ Root.tag = NestingFlagOf(v.type.kind, v.type.elem.kind)
                          + FlagOfKind(v.type.elem.elem.kind)
        /\ ~Has(Root.tag, Slice)
        /\ ~Has(Root.tag, Array)
        /\ IsComplex(Root)

C5_Witness ==
    /\ pc = "done"
    /\ v.type = SliceT(SliceT(Leaf("Int32", "int32")))
    /\ Root.name = "[][]int32"
    /\ Root.tag = SliceOfSlices + Int32

\* C6: the wrapper returned by Of carries at most one of the four nesting
\* flags, also for three or more sequence levels.
C6_AtMostOneNestingFlag ==
    Returned => Cardinality(FlagsIn(Root.tag) \cap NestingFlags) <= 1

\* C7: for a map reached on the wrapper (directly or through pointers,
\* slices, arrays, channels) the wrapper has Map and the flags of the levels
\* above the map and nothing of the key or value type; MapKeyKind and
\* MapValueKind return wrappers whose name and tag are those of the key type
\* and of the value type classified on their own from an empty tag.
C7_MapChildren ==
    (Returned /\ ~v.isNil /\ MapOf(v.type).kind = "Map") =>
        LET m == MapOf(v.type)
            key == MapKeyKind(heap, Root)
            val == MapValueKind(heap, Root)
        IN  /\ Has(Root.tag, Map)
            /\ FlagsIn(Root.tag) = PolicyFlags(v.type, {})
            /\ FlagsIn(Root.tag) \subseteq
                   {Map, Pointer, Chan, Slice, Array} \cup NestingFlags
            /\ ~key.absent /\ ~val.absent
            /\ key.kind.name = TypeString(m.key)
            /\ val.kind.name = TypeString(m.elem)
            /\ key.kind.tag = SumOf(PolicyFlags(m.key, {}))
            /\ val.kind.tag = SumOf(PolicyFlags(m.elem, {}))

C7_Witness ==
    /\ pc = "done"
    /\ v.type = PtrT(MapT(Leaf("String", "string"), SliceT(Leaf("Int", "int"))))
    /\ res.op = "MapValueKind"
    /\ res.k = Root
    /\ Root.tag = Pointer + Map
    /\ res.out.kind.name = "[]int"
    /\ res.out.kind.tag = Slice + IntTag

\* C8: on a wrapper whose tag does not contain Map, MapKeyKind and
\* MapValueKind return a present wrapper named "nil" with IsNil true.
C8_NonMapChildrenNil ==
    (res.op \in {"MapKeyKind", "MapValueKind"} /\ ~Has(res.k.tag, Map)) =>
        /\ ~res.out.absent
        /\ Name(res.out.kind) = "nil"
        /\ Has(res.out.kind.tag, Nil)

C8_Witness ==
    /\ res.op = "MapKeyKind"
    /\ res.k = Root
    /\ Root.tag = Slice + IntTag
    /\ res.out.kind.name = "nil"

\* C1: on every wrapper (of a container, of a named type, a map child) and
\* for every scalar category X, if Is<X> holds then As<X> returns the
\* retained value and true, and does not panic.
C1_AsSucceedsWhenIs ==
    (res.op = "As" /\ Has(res.k.tag, FlagOfLabel(KindName(res.arg)))) =>
        res.out = [val |-> res.k.value.data, ok |-> TRUE, panic |-> FALSE]

\* C2: when Is<X> is false, As<X> returns the zero value and false; no
\* extraction succeeds across categories.
C2_AsFailsWhenNotIs ==
    (res.op = "As" /\ ~Has(res.k.tag, FlagOfLabel(KindName(res.arg)))) =>
        res.out = [val |-> 0, ok |-> FALSE, panic |-> FALSE]

C2_Witness ==
    /\ pc = "asked"
    /\ res.op = "As"
    /\ res.arg = "Int"
    /\ res.k = Root
    /\ v = Value(Leaf("Uint", "uint"), 1)
    /\ Has(Root.tag, Uint)
    /\ res.out = [val |-> 0, ok |-> FALSE, panic |-> FALSE]

\* C9: for every label L of the label table, in any letter case and
\* spacing, Is(L) is the test of the wrapper's tag for the flag of L.
Spellings(label) == {label, ToUpper(label), StripSpaces(label)}

C9_IsLabelMatchesTag ==
    \A l \in Labels :
        (res.op = "Is" /\ res.arg \in Spellings(l[1])) =>
            res.out = (BitAnd(res.k.tag, l[2]) = l[2])

\* C10: for the wrapper k returned by Of, k.Is(k.Name()) is true.
C10_IsOwnName ==
    (res.op = "Is" /\ res.k = Root /\ res.arg = Name(Root)) => res.out = TRUE

\* C11: for a value of function type, IsFunction holds on the wrapper.
C11_FuncIsFunction ==
    (Returned /\ ~v.isNil /\ v.type.kind = "Func") => IsFunction(Root)

\* C12: IsComplex holds for every value whose type is a struct, a map or a
\* slice, and is false for every value of a scalar type.
C12_IsComplexByShape ==
    (Returned /\ ~v.isNil) =>
        /\ v.type.kind \in {"Struct", "Map", "Slice"} => IsComplex(Root)
        /\ v.type.kind \in ScalarKinds => ~IsComplex(Root)

\* C13: the walk of Of ends for every type, also for a defined type whose
\* element, pointee or value type is the type itself: the nesting of the
\* invocations never exhausts the stack.
C13_WalkEnds == pc # "overflow"

\* C14: for every non-nil value the name of the returned wrapper is the
\* textual form of the type of the value, whichever branches the walk took.
C14_NameIsTypeString ==
    (Returned /\ ~v.isNil) => Name(Root) = TypeString(v.type)

C14_Witness ==
    /\ pc = "done"
    /\ v.type = SliceT(Leaf("Func", "func()"))
    /\ Name(Root) = "[]func()"
    /\ Root.tag = Slice

(***************************************************************************)
(* Vocabulary of the properties of Tag: a value as its set of bit          *)
(* positions.                                                              *)
(***************************************************************************)
BitsOf(t) == {i \in 0..30 : (t \div 2^i) % 2 = 1}
FromBits(S) == SumOf({2^i : i \in S})
BitOr(a, b) == FromBits(BitsOf(a) \cup BitsOf(b))
Disjoint(a, b) == BitsOf(a) \cap BitsOf(b) = {}

\* The union of the flags of a list.
RECURSIVE UnionOf(_)
UnionOf(flags) ==
    IF flags = <<>> THEN 0 ELSE BitOr(Head(flags), UnionOf(Tail(flags)))

\* A value with no bit at or above overflowTagValue.
ValidTag(t) == t \in 0..(overflowTagValue - 1)

NonZero(f) == f # 0

\* The latest call on the Tag variable.
Called == calls # <<>>
Last == calls[Len(calls)]
Mutating == {"Set", "Add", "Delete"}

\* C15: a successful Add leaves the receiver equal to the union of its
\* previous value and all the flags (single-bit or multi-bit), and All holds
\* afterwards for the non-zero flags.
C15_AddIsUnion ==
    (Called /\ Last.op = "Add" /\ ~Last.out.err) =>
        /\ recv = BitOr(Last.k, UnionOf(Last.arg))
        /\ All(recv, SelectSeq(Last.arg, NonZero))

\* C16: a successful Set leaves the receiver equal to the union of the
\* flags, whatever their order and repetition and whatever the receiver held
\* before.
C16_SetIsUnion ==
    (Called /\ Last.op = "Set" /\ ~Last.out.err) =>
        /\ recv = UnionOf(Last.arg)
        /\ Last.out.t = recv

\* The Add and the Delete of one flag list, one after the other, both
\* accepted.
AddThenDelete ==
    /\ Len(calls) >= 2
    /\ calls[Len(calls) - 1].op = "Add"
    /\ ~calls[Len(calls) - 1].out.err
    /\ Last.op = "Delete"
    /\ ~Last.out.err
Start == calls[Len(calls) - 1].k

\* C17, as stated: Add followed by Delete with the same valid flags restores
\* any starting value.
C17_AddDeleteRestores == AddThenDelete => recv = Start

\* The flags are new to the value t and do not overlap each other.
FreshFlags(t, flags) ==
    /\ \A i \in 1..Len(flags) : Disjoint(flags[i], t)
    /\ \A i, j \in 1..Len(flags) :
           flags[i] = flags[j] \/ Disjoint(flags[i], flags[j])

\* C17, amended: Add followed by Delete with the same valid flags restores a
\* valid starting value when no flag shares a bit with it and the flags are
\* pairwise equal or disjoint.
C17_AddDeleteRestoresFresh ==
    (AddThenDelete /\ ValidTag(Start) /\ FreshFlags(Start, args)) =>
        recv = Start

C17_Witness ==
    /\ Len(calls) = 2
    /\ args = <<Slice, IntTag>>
    /\ calls[1] = Result("Add", Nil, args,
                         [t |-> Nil + Slice + IntTag, err |-> FALSE])
    /\ calls[2].op = "Delete"
    /\ recv = Nil

\* C18: when a flag of Set, Add or Delete fails IsValid, wherever it stands
\* in the list, the call returns an error, the receiver keeps its value and
\* the returned Tag is that value.
C18_InvalidFlagRejected ==
    (Called /\ Last.op \in Mutating
        /\ \E i \in 1..Len(Last.arg) : ~ValidTag(Last.arg[i])) =>
        /\ Last.out.err
        /\ recv = Last.k
        /\ Last.out.t = Last.k

C18_Witness ==
    /\ Len(calls) = 1
    /\ calls[1] = Result("Add", Slice, <<Nil, overflowTagValue>>,
                         [t |-> Slice, err |-> TRUE])
    /\ recv = Slice

\* C19: Set, Add, Delete and Contains given a zero flag report an error and
\* leave the receiver unchanged.
C19_ZeroFlagRejected ==
    /\ (Called /\ Last.op \in Mutating
           /\ \E i \in 1..Len(Last.arg) : Last.arg[i] = 0) =>
           (Last.out.err /\ recv = Last.k)
    /\ (Called /\ Last.op = "Contains" /\ Last.arg = 0) =>
           (Last.out.err # "" /\ recv = Last.k)

\* C20: Contains returns an error and false when the flag is zero, the flag
\* is invalid or the receiver is invalid; otherwise no error and true
\* exactly when every bit of the flag is in the receiver; the receiver is
\* not modified.
C20_Contains ==
    (Called /\ Last.op = "Contains") =>
        /\ recv = Last.k
        /\ IF Last.arg = 0 \/ ~ValidTag(Last.arg) \/ ~ValidTag(Last.k)
           THEN Last.out.err # "" /\ ~Last.out.ok
           ELSE /\ Last.out.err = ""
                /\ Last.out.ok = (BitsOf(Last.arg) \subseteq BitsOf(Last.k))

C20_Witness ==
    /\ Len(calls) = 1
    /\ calls[1] = Result("Contains", Slice, Slice + IntTag,
                         [ok |-> FALSE, err |-> ""])
    /\ recv = Slice

\* The flag f is wholly present in the value t.
Present(t, f) ==
    /\ f # 0
    /\ ValidTag(f)
    /\ ValidTag(t)
    /\ BitsOf(f) \subseteq BitsOf(t)

PairwiseApart(flags) ==
    \A i, j \in 1..Len(flags) :
        flags[i] = flags[j] \/ Disjoint(flags[i], flags[j])

\* The bits of the flags of a list that are wholly present in t.
PresentBits(t, flags) ==
    UNION {BitsOf(flags[i]) : i \in {j \in 1..Len(flags) : Present(t, flags[j])}}

DeletedOk == Called /\ Last.op = "Delete" /\ ~Last.out.err /\ ValidTag(Last.k)

\* C21, as stated: a successful Delete on a valid receiver removes exactly
\* the bits of the given flags that are wholly present, and Any of the flags
\* is false afterwards.
C21_DeleteRemovesPresent ==
    DeletedOk =>
        /\ BitsOf(recv) = BitsOf(Last.k) \ PresentBits(Last.k, Last.arg)
        /\ ~Any(recv, Last.arg)

\* C21, amended: a successful Delete on a valid receiver sets no bit, changes
\* no bit outside the given flags and leaves Any of the flags false; when
\* the flags are pairwise equal or disjoint it removes exactly the flags that
\* are wholly present.
C21_DeleteFrame ==
    DeletedOk =>
        /\ BitsOf(recv) \subseteq BitsOf(Last.k)
        /\ BitsOf(Last.k) \ BitsOf(recv) \subseteq
               UNION {BitsOf(Last.arg[i]) : i \in 1..Len(Last.arg)}
        /\ ~Any(recv, Last.arg)
        /\ PairwiseApart(Last.arg) =>
               BitsOf(recv) = BitsOf(Last.k) \ PresentBits(Last.k, Last.arg)

C21_Witness ==
    /\ Len(calls) = 1
    /\ calls[1] = Result("Delete", Slice + IntTag, <<Slice, Nil>>,
                         [t |-> IntTag, err |-> FALSE])
    /\ recv = IntTag

\* C22: IsValid is true exactly for the values with no bit at or above
\* overflowTagValue: zero and every sum of distinct flags are valid, the
\* sentinel and every valid value with the sentinel added are not.
C22_IsValid ==
    (Called /\ Last.op = "IsValid") =>
        /\ Last.out = (BitsOf(Last.k) \subseteq 0..29)
        /\ Last.k \in CategorySums => Last.out
        /\ Last.k \in {overflowTagValue + t : t \in CategorySums} => ~Last.out
        /\ recv = Last.k

C22_Witness ==
    /\ calls = <<Result("IsValid", overflowTagValue + Pointer + Array, <<>>,
                        FALSE)>>
    /\ recv = overflowTagValue + Pointer + Array

\* C23: every flag is single and not complex, every sum of two distinct
\* flags is complex and not single, and zero is neither.
C23_SingleOrComplex ==
    /\ (Called /\ Last.op = "IsSingle") =>
           /\ Last.k \in AllFlags => Last.out
           /\ (ValidTag(Last.k) /\ Cardinality(BitsOf(Last.k)) = 2) =>
                  ~Last.out
           /\ Last.k = 0 => ~Last.out
    /\ (Called /\ Last.op = "IsComplex") =>
           /\ Last.k \in AllFlags => ~Last.out
           /\ (ValidTag(Last.k) /\ Cardinality(BitsOf(Last.k)) = 2) =>
                  Last.out
           /\ Last.k = 0 => ~Last.out

C23_Witness ==
    /\ calls = <<Result("IsSingle", UnsafePointer, <<>>, TRUE)>>
    /\ recv = UnsafePointer

\* C24: All is true exactly when every given flag is contained (true for
\* the empty list), Any exactly when at least one is (false for the empty
\* list); both are false on a zero receiver with a non-empty list, and the
\* receiver is not modified.
C24_AllAny ==
    /\ (Called /\ Last.op = "All") =>
           /\ Last.out = \A i \in 1..Len(Last.arg) : Present(Last.k, Last.arg[i])
           /\ Last.arg = <<>> => Last.out
           /\ (Last.k = 0 /\ Last.arg # <<>>) => ~Last.out
           /\ recv = Last.k
    /\ (Called /\ Last.op = "Any") =>
           /\ Last.out = \E i \in 1..Len(Last.arg) : Present(Last.k, Last.arg[i])
           /\ Last.arg = <<>> => ~Last.out
           /\ (Last.k = 0 /\ Last.arg # <<>>) => ~Last.out
           /\ recv = Last.k

C24_Witness ==
    /\ calls = <<Result("All", Slice + IntTag, <<Slice, IntTag>>, TRUE)>>
    /\ recv = Slice + IntTag

\* C27: for every value, also one with a bit at or above overflowTagValue,
\* Tag.IsComplex is true exactly when two or more of the bits of the flags
\* are set.
C27_ComplexIsTwoFlags ==
    (Called /\ Last.op = "IsComplex") =>
        Last.out = (Cardinality(BitsOf(Last.k) \cap 0..29) >= 2)

\* C28: from a valid value, after any sequence of successful Set, Add and
\* Delete calls the receiver is valid.
C28_StaysValid ==
    LET start == IF Called THEN calls[1].k ELSE recv
    IN  (/\ ValidTag(start)
         /\ \A i \in 1..Len(calls) :
                IF calls[i].op \in Mutating THEN ~calls[i].out.err ELSE FALSE)
            => IsValid(recv)

(***************************************************************************)
(* Vocabulary of the properties of the walk over nested shapes.            *)
(***************************************************************************)
SeqKinds == {"Slice", "Array"}
PlainFlags == {Slice, Array}
ScalarFlags == {FlagOfKind(kd) : kd \in ScalarKinds}

\* The type the walk on one wrapper ends in.
RECURSIVE ChainLeaf(_)
ChainLeaf(t) ==
    IF t.kind \in {"Slice", "Array", "Ptr", "Chan"} THEN ChainLeaf(t.elem)
    ELSE t

\* The number of directly nested slice levels of a type, and what is below.
RECURSIVE SliceLevels(_)
SliceLevels(t) == IF t.kind = "Slice" THEN 1 + SliceLevels(t.elem) ELSE 0

RECURSIVE SliceBase(_)
SliceBase(t) == IF t.kind = "Slice" THEN SliceBase(t.elem) ELSE t

ShapeFlag(kind) ==
    IF kind = "Ptr" THEN Pointer ELSE FlagOfLabel(ToLower(kind))

\* C25: when the outermost level of the type sets a nesting flag, no later
\* level adds a plain Slice or Array flag and the flag of the scalar at the
\* end of the walk is still added; three or more directly nested slices over
\* a scalar E give exactly SliceOfSlices plus the flag of E.
C25_NestingSuppressesPlain ==
    (Returned /\ ~v.isNil /\ v.type.kind \in SeqKinds
        /\ v.type.elem.kind \in SeqKinds) =>
        /\ FlagsIn(Root.tag) \cap PlainFlags = {}
        /\ ChainLeaf(v.type).kind \in ScalarKinds =>
               Has(Root.tag, FlagOfKind(ChainLeaf(v.type).kind))
        /\ (SliceLevels(v.type) >= 3
               /\ SliceBase(v.type).kind \in ScalarKinds) =>
               Root.tag = SliceOfSlices + FlagOfKind(SliceBase(v.type).kind)

C25_Witness ==
    /\ pc = "done"
    /\ v.type = SliceT(SliceT(SliceT(Leaf("Uint", "uint"))))
    /\ Name(Root) = "[][][]uint"
    /\ Root.tag = SliceOfSlices + Uint

\* C26: for a pointer or a channel the tag of the wrapper is the shape flag
\* together with the flags the classification of the element type adds; a
\* pointer, channel, slice or array of a scalar E gives the shape flag plus
\* the flag of E.
C26_ShapeThenElement ==
    (Returned /\ ~v.isNil) =>
        /\ v.type.kind \in {"Ptr", "Chan"} =>
               /\ FlagsIn(Root.tag) =
                      {ShapeFlag(v.type.kind)}
                          \cup PolicyFlags(v.type.elem, {})
               /\ Root.tag = SumOf(FlagsIn(Root.tag))
        /\ (v.type.kind \in {"Ptr", "Chan", "Slice", "Array"}
               /\ v.type.elem.kind \in ScalarKinds) =>
               Root.tag = ShapeFlag(v.type.kind)
                              + FlagOfKind(v.type.elem.kind)

C26_Witness ==
    /\ pc = "done"
    /\ v.type = ChanT(SliceT(Leaf("Int", "int")))
    /\ Name(Root) = "chan []int"
    /\ Root.tag = Chan + Slice + IntTag

\* C29: no wrapper carries a plain Slice or Array flag together with a
\* nesting flag, whatever stands between the sequence levels of the type.
C29_PlainExcludesNesting ==
    Returned =>
        \A i \in 1..Len(heap) :
            \/ FlagsIn(heap[i].tag) \cap PlainFlags = {}
            \/ FlagsIn(heap[i].tag) \cap NestingFlags = {}

\* C30: every wrapper a caller holds (the one Of returned, or a child
\* reached through MapKeyKind and MapValueKind) carries at most one scalar
\* flag; IsSigned and IsUnsigned are never both true, and IsNumber holds
\* exactly when one of them does.
C30_OneScalarFlag ==
    (pc = "done" /\ cur \in {heap[i] : i \in 1..Len(heap)}) =>
        LET signed == IsSigned(cur)
            unsigned == IsUnsigned(cur)
        IN  /\ Cardinality(FlagsIn(cur.tag) \cap ScalarFlags) <= 1
            /\ ~(signed /\ unsigned)
            /\ IsNumber(cur) = (signed \/ unsigned)

C30_Witness ==
    /\ pc = "done"
    /\ v.type = MapT(Leaf("Int", "int"), Leaf("Uint", "uint"))
    /\ res.op = "MapValueKind"
    /\ res.k = Root
    /\ cur = heap[3]
    /\ cur.tag = Uint
    /\ IsUnsigned(cur) /\ IsNumber(cur) /\ ~IsSigned(cur)
====
